---- MODULE Spec2Model ----
(***************************************************************************)
(* StatusEngine (codex-rs/tui/src/statusengine.rs): the footer status      *)
(* engine of the TUI.  The module models the engine's fields, its          *)
(* constructor, set_state, set_line2_selection and tick with its helpers   *)
(* update_git_info, build_line2, maybe_run_command_provider and            *)
(* run_command_provider.                                                   *)
(*                                                                         *)
(* Conventions.                                                            *)
(*  - An Option<T> is a record: None is [some |-> FALSE], Some(x) is       *)
(*    [some |-> TRUE, v |-> x].                                            *)
(*  - A String is a sequence of characters, each a string naming it: an    *)
(*    ASCII character names itself, the others are named by code point.    *)
(*  - An Instant is a natural number of milliseconds on the host's         *)
(*    monotonic clock; a Duration is a number of milliseconds.             *)
(*  - A u64 is kept as four 16-bit limbs (least significant first), so     *)
(*    that 64-bit wrap-around is computed exactly.                         *)
(***************************************************************************)
EXTENDS Integers, Sequences, FiniteSets, TLC

VARIABLES
    config,                 \* StatusEngine.config (StatusEngineConfig)
    state,                  \* StatusEngine.state (StatusEngineState)
    line2_items,            \* StatusEngine.line2_items
    last_command_run,       \* StatusEngine.last_command_run : Option<Instant>
    last_line3,             \* StatusEngine.last_line3 : Option<String>
    consecutive_failures,   \* StatusEngine.consecutive_failures : u32
    backoff_until,          \* StatusEngine.backoff_until : Option<Instant>
    panicked,               \* the thread running tick has panicked (arithmetic overflow)
    now,                    \* the Instant the host passed to the most recent tick
    output,                 \* the StatusEngineOutput the most recent tick returned
    config_arg,             \* history: the StatusEngineConfig handed to StatusEngine::new
    last_call,              \* history: what the most recent operation was and what it met
    err_run,                \* history: number of Err results of the runner since its last Ok
    last_success,           \* history: the line of the runner's most recent Ok(Some(line))
    pc                      \* where the future of a tick in flight is suspended, if one is

vars == <<config, state, line2_items, last_command_run, last_line3,
          consecutive_failures, backoff_until, panicked, now, output,
          config_arg, last_call, err_run, last_success, pc>>

history == <<last_command_run, last_line3, consecutive_failures, backoff_until>>

-----------------------------------------------------------------------------
(* Option<T> *)

None == [some |-> FALSE]

Some(x) == [some |-> TRUE, v |-> x]

\* No tick is in flight
Idle == [at |-> "idle"]

-----------------------------------------------------------------------------
(* Bounds of the model *)

\* The host's clock reading at a call of tick never exceeds MaxTime ms.
MaxTime == 2000

\* In the backoff study the failure counter is followed up to MaxFailures.
MaxFailures == 70

\* Selections of up to MaxSel items are composed.
MaxSel == 2

\* The width-aware line is composed for terminal widths up to MaxLineWidth.
MaxLineWidth == 24

\* Texts of up to MaxTextLen characters are truncated to widths up to MaxWidth.
MaxTextLen == 5

MaxWidth == 7

-----------------------------------------------------------------------------
(* Strings *)

\* The horizontal ellipsis, 3 bytes in UTF-8, and e with acute, 2 bytes
Ellipsis == "U+2026"

EAcute == "U+00E9"

\* char::len_utf8
Utf8Len(c) == IF c = Ellipsis THEN 3 ELSE IF c = EAcute THEN 2 ELSE 1

RECURSIVE ByteLen(_)
\* str::len: the length in bytes
ByteLen(s) == IF Len(s) = 0 THEN 0 ELSE Utf8Len(Head(s)) + ByteLen(Tail(s))

sModel == <<"g", "5">>

sEffort == <<"l", "o">>

sMain == <<"m", "n">>

sDev == <<"d">>

sCounts == <<"+", "1", " ", "-", "0">>

sCmd == <<"/", "c">>

sDir == <<"/", "w">>

sWorkspace == <<"w", "s">>

sSandbox == <<"r", "o">>

sApproval == <<"o", "r">>

sLongModel == <<"g", "p", "t", "-", "5", "-", "c", "o", "d", "e", "x", "-", "h", "i", "g", "h">>

sMidModel == <<"g", "p", "t", "-", "5", "-", "c", "o", "d", "e", "x", "-", "h", "i">>

sLongBranch == <<"f", "e", "a", "t", "/", "s", "t", "a", "t", "u", "s">>

sAccentBranch == <<"d", EAcute, "v">>

\* " | ", the separator of parts.join(" | ")
Separator == <<" ", "|", " ">>

Digit(d) == CASE d = 0 -> "0" [] d = 1 -> "1" [] d = 2 -> "2" [] d = 3 -> "3"
              [] d = 4 -> "4" [] d = 5 -> "5" [] d = 6 -> "6" [] d = 7 -> "7"
              [] d = 8 -> "8" [] d = 9 -> "9"

RECURSIVE Decimal(_)
\* Display of an unsigned integer, as format!("{}", n) writes it
Decimal(n) == IF n < 10 THEN <<Digit(n)>> ELSE Decimal(n \div 10) \o <<Digit(n % 10)>>

RECURSIVE Join(_, _)
\* parts.join(sep)
Join(parts, sep) ==
    IF Len(parts) = 0 THEN <<>>
    ELSE IF Len(parts) = 1 THEN parts[1]
    ELSE parts[1] \o sep \o Join(Tail(parts), sep)

-----------------------------------------------------------------------------
(* StatusEngineConfig, StatusItem, StatusEngineState, StatusEngineOutput *)

\* The configurations the host constructs an engine with.
ConfigArgs ==
    { [command_timeout_ms |-> 100,  command |-> Some(sCmd), enabled |-> TRUE,  provider |-> "command"],
      [command_timeout_ms |-> 300,  command |-> Some(sCmd), enabled |-> TRUE,  provider |-> "command"],
      [command_timeout_ms |-> 1000, command |-> None,       enabled |-> TRUE,  provider |-> "command"],
      [command_timeout_ms |-> 300,  command |-> None,       enabled |-> FALSE, provider |-> "builtin"],
      [command_timeout_ms |-> 150,  command |-> Some(sCmd), enabled |-> TRUE,  provider |-> "builtin"],
      [command_timeout_ms |-> 9000, command |-> Some(sCmd), enabled |-> TRUE,  provider |-> "shell"] }

DefaultItems == <<"Model", "Effort", "WorkspaceName", "GitBranch", "Sandbox", "Approval">>

\* StatusEngineState::default(): every field absent
DefaultState ==
    [model |-> None, effort |-> None, workspace_name |-> None, git_branch |-> None,
     git_counts |-> None, sandbox |-> None, approval |-> None,
     since_session_ms |-> None, cwd |-> None]

\* The session snapshots the host hands to set_state.
StateArgs ==
    { DefaultState,
      [DefaultState EXCEPT !.model = Some(sModel), !.git_branch = Some(sMain),
                           !.git_counts = Some(sCounts), !.cwd = Some(sDir)] }

\* The selections the host hands to set_line2_selection.
SelectionArgs == { DefaultItems, <<"GitBranch", "Model">> }

\* StatusEngineOutput::default()
DefaultOutput == [line2 |-> <<>>, line3 |-> None]

Clamp(x, lo, hi) == IF x < lo THEN lo ELSE IF x > hi THEN hi ELSE x

\* new without its validation
new_unvalidated(cfg) == cfg

\* StatusEngine::new: the configuration after validation
new(cfg) ==
    [cfg EXCEPT !.command_timeout_ms = Clamp(cfg.command_timeout_ms, 150, 500),
                !.provider = IF cfg.provider # "command" /\ cfg.provider # "builtin"
                             THEN "builtin" ELSE cfg.provider]

\* Duration::from_millis(300), the built-in throttle
command_cooldown == 300

-----------------------------------------------------------------------------
(* The git-info collaborator (codex_core::git_info), as update_git_info    *)
(* consumes it: what the two calls may return.                             *)

\* collect_git_info(cwd).await : Option<GitInfo>, of which only .branch is read
GitInfoResults == { None, Some([branch |-> None]), Some([branch |-> Some(sDev)]) }

\* working_diff_counts(cwd).await : Option<(added, removed)>
DiffCountResults == { None, Some(<<2, 10>>) }

\* format!("+{} -{}", added, removed)
FormatCounts(added, removed) == <<"+">> \o Decimal(added) \o <<" ", "-">> \o Decimal(removed)

\* update_git_info dropping the git fields of a session without a directory
update_git_info_clearing(st, info, counts) ==
    IF st.cwd.some
    THEN LET st1 == IF info.some THEN [st EXCEPT !.git_branch = info.v.branch] ELSE st
         IN  IF counts.some
             THEN [st1 EXCEPT !.git_counts = Some(FormatCounts(counts.v[1], counts.v[2]))]
             ELSE st1
    ELSE [st EXCEPT !.git_branch = None, !.git_counts = None]

\* update_git_info: the session state after the refresh step
update_git_info(st, info, counts) ==
    IF st.cwd.some
    THEN LET st1 == IF info.some THEN [st EXCEPT !.git_branch = info.v.branch] ELSE st
         IN  IF counts.some
             THEN [st1 EXCEPT !.git_counts = Some(FormatCounts(counts.v[1], counts.v[2]))]
             ELSE st1
    ELSE st

-----------------------------------------------------------------------------
(* build_line2 *)

\* text.dim().to_string(): Display of the dimmed Span writes its content only
style_status_line(text) == text

\* The match in build_line2 with a GitBranch arm that leaves the counts out
Token_without_counts(st, item) ==
    CASE item = "Model"         -> st.model
      [] item = "Effort"        -> st.effort
      [] item = "WorkspaceName" -> st.workspace_name
      [] item = "GitBranch"     -> st.git_branch
      [] item = "Sandbox"       -> st.sandbox
      [] item = "Approval"      -> st.approval

\* One arm of the match in build_line2: the token pushed for an item, if any
Token(st, item) ==
    CASE item = "Model"         -> st.model
      [] item = "Effort"        -> st.effort
      [] item = "WorkspaceName" -> st.workspace_name
      [] item = "GitBranch"     ->
            IF st.git_branch.some
            THEN IF st.git_counts.some
                 THEN Some(st.git_branch.v \o <<" ">> \o st.git_counts.v)
                 ELSE Some(st.git_branch.v)
            ELSE None
      [] item = "Sandbox"       -> st.sandbox
      [] item = "Approval"      -> st.approval

RECURSIVE Parts(_, _)
\* The vector `parts` after the loop over line2_items
Parts(st, items) ==
    IF Len(items) = 0 THEN <<>>
    ELSE LET tok == Token(st, Head(items))
         IN  (IF tok.some THEN <<tok.v>> ELSE <<>>) \o Parts(st, Tail(items))

build_line2(st, items) ==
    LET parts == Parts(st, items)
    IN  IF Len(parts) = 0 THEN <<>> ELSE style_status_line(Join(parts, Separator))

-----------------------------------------------------------------------------
(* truncate_with_ellipsis *)

Min(a, b) == IF a <= b THEN a ELSE b

\* chars.iter().take(n).collect()
TakeChars(text, n) == SubSeq(text, 1, Min(n, Len(text)))

\* chars.iter().rev().take(n) ... .rev().collect(): the last n characters
TakeLastChars(text, n) == SubSeq(text, Len(text) - Min(n, Len(text)) + 1, Len(text))

\* truncate_with_ellipsis cutting the text itself where the width is below 3
truncate_with_ellipsis_prefix(text, max_width) ==
    IF ByteLen(text) <= max_width THEN text
    ELSE IF max_width < 3 THEN TakeChars(text, max_width)
    ELSE LET available == max_width - ByteLen(<<Ellipsis>>)
             left_len == available \div 2
             right_len == available - left_len
         IN  TakeChars(text, left_len) \o <<Ellipsis>> \o TakeLastChars(text, right_len)

truncate_with_ellipsis(text, max_width) ==
    IF ByteLen(text) <= max_width THEN text
    ELSE IF max_width < 3 THEN TakeChars(<<".", ".", ".">>, max_width)
    ELSE LET available == max_width - ByteLen(<<Ellipsis>>)
             left_len == available \div 2
             right_len == available - left_len
         IN  TakeChars(text, left_len) \o <<Ellipsis>> \o TakeLastChars(text, right_len)

-----------------------------------------------------------------------------
(* get_line2_with_width *)

\* usize::saturating_sub
saturating_sub(a, b) == IF a >= b THEN a - b ELSE 0

RECURSIVE SumLen(_)
\* parts.iter().map(|p| p.len()).sum()
SumLen(parts) == IF Len(parts) = 0 THEN 0 ELSE ByteLen(Head(parts)) + SumLen(Tail(parts))

\* The GitBranch arm: the branch token, cut to the width the parts pushed so
\* far and the estimate for the items still to come leave for it
git_part_with_width(st, items, parts, max_width) ==
    LET git_part == IF st.git_counts.some
                    THEN st.git_branch.v \o <<" ">> \o st.git_counts.v
                    ELSE st.git_branch.v
        separator_len == IF Len(parts) = 0 THEN 0 ELSE ByteLen(Separator)
        other_parts_len == SumLen(parts) + saturating_sub(Len(parts), 1) * ByteLen(Separator)
        remaining_parts_estimate == (Len(items) - Len(parts) - 1) * 15
        available_for_branch ==
            saturating_sub(max_width, other_parts_len + separator_len + remaining_parts_estimate)
    IN  IF ByteLen(git_part) > available_for_branch /\ available_for_branch > 3
        THEN truncate_with_ellipsis(git_part, available_for_branch)
        ELSE git_part

RECURSIVE PartsWithWidth(_, _, _, _, _)
\* The for loop over line2_items from item k on, parts being the tokens pushed
PartsWithWidth(st, items, k, parts, max_width) ==
    IF k > Len(items) THEN parts
    ELSE LET item == items[k]
             pushed ==
                 IF item = "GitBranch"
                 THEN IF st.git_branch.some
                      THEN <<git_part_with_width(st, items, parts, max_width)>>
                      ELSE <<>>
                 ELSE IF Token(st, item).some THEN <<Token(st, item).v>> ELSE <<>>
         IN  PartsWithWidth(st, items, k + 1, parts \o pushed, max_width)

\* get_line2_with_width returning the joined line whatever its length
get_line2_with_width_no_fallback(st, items, max_width) ==
    LET parts == PartsWithWidth(st, items, 1, <<>>, max_width)
    IN  IF Len(parts) = 0 THEN <<>> ELSE style_status_line(Join(parts, Separator))

get_line2_with_width(st, items, max_width) ==
    LET parts == PartsWithWidth(st, items, 1, <<>>, max_width)
        result == Join(parts, Separator)
    IN  IF Len(parts) = 0 THEN <<>>
        ELSE IF ByteLen(result) > max_width
             THEN style_status_line(truncate_with_ellipsis(result, max_width))
             ELSE style_status_line(result)

-----------------------------------------------------------------------------
(* u64 arithmetic of the backoff window *)

\* 2^16: a u64 is four limbs of 16 bits
Limb == 256 * 256

RECURSIVE Pow2(_)
Pow2(k) == IF k = 0 THEN 1 ELSE 2 * Pow2(k - 1)

\* 1u64 << k for 0 <= k < 64
Shl1(k) == [i \in 1..4 |-> IF i - 1 = k \div 16 THEN Pow2(k % 16) ELSE 0]

\* c * x in u64 for a small c: the wrapped product and whether it overflowed
MulSmall(c, x) ==
    LET p1 == c * x[1]
        p2 == c * x[2] + (p1 \div Limb)
        p3 == c * x[3] + (p2 \div Limb)
        p4 == c * x[4] + (p3 \div Limb)
    IN  [val |-> <<p1 % Limb, p2 % Limb, p3 % Limb, p4 % Limb>>,
         overflow |-> (p4 \div Limb) > 0]

\* std::cmp::min(a, x) for a small a: the result is small
MinSmall(a, x) == IF x[2] = 0 /\ x[3] = 0 /\ x[4] = 0 /\ x[1] <= a THEN x[1] ELSE a

\* The backoff window capped at a minute instead of five seconds
backoff_ms_capped_at_minute(failures, overflow_checks) ==
    LET k == failures - 3
        shifted == Shl1(k % 64)
        prod == MulSmall(1000, shifted)
    IN  IF overflow_checks /\ (k >= 64 \/ prod.overflow)
        THEN [panic |-> TRUE, ms |-> 0]
        ELSE [panic |-> FALSE, ms |-> MinSmall(60000, prod.val)]

\* std::cmp::min(5000, 1000 * (1 << (consecutive_failures - 3))) in u64, for
\* consecutive_failures >= 3.  With overflow checks (debug profile) a shift by
\* 64 or more and an overflowing product panic; without (release profile) the
\* shift amount is masked to 6 bits and the product wraps.
backoff_ms(failures, overflow_checks) ==
    LET k == failures - 3
        shifted == Shl1(k % 64)
        prod == MulSmall(1000, shifted)
    IN  IF overflow_checks /\ (k >= 64 \/ prod.overflow)
        THEN [panic |-> TRUE, ms |-> 0]
        ELSE [panic |-> FALSE, ms |-> MinSmall(5000, prod.val)]

-----------------------------------------------------------------------------
(* build_command_payload.  A JSON object is a function from its keys to     *)
(* its values; a value is a string, a number or an object.                  *)

\* serde_json::Value::String, ::Number, ::Object
JStr(s) == [str |-> s]

JNum(n) == [num |-> n]

JObj(f) == [obj |-> f]

\* serde_json::Map::new()
EmptyObj == [k \in {} |-> JNum(0)]

\* One insert into a map, made when `present` holds
Insert(present, key, value) == IF present THEN key :> value ELSE EmptyObj

\* cwd.display().to_string(): the path's text (paths here are valid UTF-8)
PathDisplay(path) == path

\* build_command_payload: the map behind Ok(Value::Object(payload))
build_command_payload(st) ==
    LET workspace_obj ==
            ("name" :> JStr(IF st.workspace_name.some THEN st.workspace_name.v ELSE <<>>))
            @@ Insert(st.cwd.some, "current_dir",
                      JStr(IF st.cwd.some THEN PathDisplay(st.cwd.v) ELSE <<>>))
        git_obj ==
            Insert(st.git_branch.some, "branch",
                   JStr(IF st.git_branch.some THEN st.git_branch.v ELSE <<>>))
            @@ Insert(st.git_counts.some, "counts",
                      JStr(IF st.git_counts.some THEN st.git_counts.v ELSE <<>>))
    IN  Insert(st.model.some, "model",
               JObj("id" :> JStr(IF st.model.some THEN st.model.v ELSE <<>>)))
        @@ Insert(st.effort.some, "effort", JStr(IF st.effort.some THEN st.effort.v ELSE <<>>))
        @@ Insert(st.workspace_name.some, "workspace", JObj(workspace_obj))
        @@ Insert(st.cwd.some, "cwd", JStr(IF st.cwd.some THEN PathDisplay(st.cwd.v) ELSE <<>>))
        @@ Insert(st.git_branch.some \/ st.git_counts.some, "git", JObj(git_obj))
        @@ Insert(st.sandbox.some, "sandbox", JStr(IF st.sandbox.some THEN st.sandbox.v ELSE <<>>))
        @@ Insert(st.approval.some, "approval",
                  JStr(IF st.approval.some THEN st.approval.v ELSE <<>>))
        @@ Insert(st.since_session_ms.some, "timing",
                  JObj("since_session_ms" :>
                       JNum(IF st.since_session_ms.some THEN st.since_session_ms.v ELSE 0)))

-----------------------------------------------------------------------------
(* run_command_provider *)

Whitespace == {" ", "\t", "\n", "\r"}

RECURSIVE FirstLine(_)
\* stdout.lines().next().unwrap_or("")
FirstLine(s) ==
    IF Len(s) = 0 \/ Head(s) = "\n" THEN <<>>
    ELSE IF Head(s) = "\r" /\ Len(s) >= 2 /\ s[2] = "\n" THEN <<>>
    ELSE <<Head(s)>> \o FirstLine(Tail(s))

RECURSIVE TrimStart(_)
TrimStart(s) == IF Len(s) > 0 /\ Head(s) \in Whitespace THEN TrimStart(Tail(s)) ELSE s

RECURSIVE TrimEnd(_)
TrimEnd(s) ==
    IF Len(s) > 0 /\ s[Len(s)] \in Whitespace THEN TrimEnd(SubSeq(s, 1, Len(s) - 1)) ELSE s

\* str::trim
Trim(s) == TrimEnd(TrimStart(s))

\* What one run of the external command may do.
Proc(kind, success, stdout) == [kind |-> kind, success |-> success, stdout |-> stdout]

NoProc == Proc("none", FALSE, <<>>)

ProcResults ==
    { Proc("spawn_err", FALSE, <<>>),      \* Command::spawn fails
      Proc("io_err", FALSE, <<>>),         \* write_all, shutdown or wait_with_output fails
      Proc("timeout", FALSE, <<>>),        \* the timeout elapses first
      Proc("exit", FALSE, <<"x">>),        \* non-zero exit status
      Proc("exit", TRUE, <<>>),
      Proc("exit", TRUE, <<" ", "x", " ", "\n", "y">>),
      Proc("exit", TRUE, <<"y", "\r", "\n">>) }

Ok(v) == [ok |-> TRUE, v |-> v]

Err == [ok |-> FALSE]

\* The future under timeout(): write the payload, wait, read the first line
read_output(proc) ==
    IF proc.kind = "io_err" THEN Err
    ELSE IF proc.success
         THEN LET first_line == Trim(FirstLine(proc.stdout))
              IN  IF Len(first_line) = 0 THEN Ok(None) ELSE Ok(Some(first_line))
         ELSE Ok(None)

\* run_command_provider surfacing the timeout as an error
run_command_provider_timeout_err(cfg, proc) ==
    IF ~cfg.command.some THEN Ok(None)
    ELSE IF proc.kind = "spawn_err" \/ proc.kind = "timeout" THEN Err
    ELSE read_output(proc)

\* run_command_provider: Result<Option<String>, _>.  build_command_payload
\* returns Ok always and serializing a Value of string-keyed maps cannot fail.
run_command_provider(cfg, proc) ==
    IF ~cfg.command.some THEN Ok(None)
    ELSE IF proc.kind = "spawn_err" THEN Err
    ELSE IF proc.kind = "timeout" THEN Ok(None)
    ELSE read_output(proc)

-----------------------------------------------------------------------------
(* Construction *)

\* An engine constructed with one of `cfgs`, to which the host has then handed
\* one of `states` and one of `selections` (or nothing, for the defaults)
InitEngine(cfgs, states, selections) ==
    /\ config_arg \in cfgs
    /\ config = new(config_arg)
    /\ state \in states
    /\ line2_items \in selections
    /\ last_command_run = None
    /\ last_line3 = None
    /\ consecutive_failures = 0
    /\ backoff_until = None
    /\ panicked = FALSE
    /\ now = 0
    /\ output = DefaultOutput
    /\ last_call = IF state = DefaultState /\ line2_items = DefaultItems
                   THEN [op |-> "new"]
                   ELSE [op |-> "set_line2_selection", arg |-> line2_items]
    /\ err_run = 0
    /\ last_success = None
    /\ pc = Idle

Init == InitEngine(ConfigArgs, {DefaultState}, {DefaultItems})

\* An engine with the builtin provider, holding one of `states` and one of
\* `selections`, on which the host is about to make one of `calls`
InitCall(states, selections, calls) ==
    /\ config_arg = [command_timeout_ms |-> 300, command |-> None, enabled |-> FALSE,
                     provider |-> "builtin"]
    /\ config = new(config_arg)
    /\ state \in states
    /\ line2_items \in selections
    /\ last_command_run = None
    /\ last_line3 = None
    /\ consecutive_failures = 0
    /\ backoff_until = None
    /\ panicked = FALSE
    /\ now = 0
    /\ output = DefaultOutput
    /\ last_call \in calls
    /\ err_run = 0
    /\ last_success = None
    /\ pc = Idle

-----------------------------------------------------------------------------
(* set_state, set_line2_selection *)

\* set_state filling the absent fields of the new state from the old one
set_state_merging(s) ==
    /\ ~panicked
    /\ state' = [f \in DOMAIN s |-> IF s[f].some THEN s[f] ELSE state[f]]
    /\ last_call' = [op |-> "set_state", arg |-> s]
    /\ UNCHANGED <<config, line2_items, history, panicked, now, output,
                   config_arg, err_run, last_success, pc>>

set_state(s) ==
    /\ ~panicked
    /\ state' = s
    /\ last_call' = [op |-> "set_state", arg |-> s]
    /\ UNCHANGED <<config, line2_items, history, panicked, now, output,
                   config_arg, err_run, last_success, pc>>

set_line2_selection(items) ==
    /\ ~panicked
    /\ line2_items' = items
    /\ last_call' = [op |-> "set_line2_selection", arg |-> items]
    /\ UNCHANGED <<config, state, history, panicked, now, output,
                   config_arg, err_run, last_success, pc>>

SetState == \E s \in StateArgs : set_state(s)

SetLine2Selection == \E items \in SelectionArgs : set_line2_selection(items)

\* .kill_on_drop(true) on the Command
kill_on_drop == TRUE

\* A Child dropped without kill_on_drop: the process is left as it is
drop_child_leaking(status) == status

\* Drop of the tokio Child: a process still running is killed if kill_on_drop
drop_child(status) == IF status = "running" /\ kill_on_drop THEN "killed" ELSE status

\* The spawned process when run_command_provider returns: "none" if nothing
\* was spawned.  The Child is moved into the future under timeout(): it is
\* dropped with that future on a timeout and on an Err of write_all, shutdown
\* or wait_with_output, and it is reaped by wait_with_output on an exit.
child_after_run(cfg, proc) ==
    IF ~cfg.command.some \/ proc.kind = "spawn_err" \/ proc.kind = "none" THEN "none"
    ELSE IF proc.kind = "exit" THEN "exited"
    ELSE drop_child("running")

-----------------------------------------------------------------------------
(* maybe_run_command_provider *)

\* The provider run history as one value
History(lr, l3, cf, bu) ==
    [last_command_run |-> lr, last_line3 |-> l3, consecutive_failures |-> cf,
     backoff_until |-> bu]

\* What a call of maybe_run_command_provider leaves behind: the run history,
\* the returned Option<String> (when it returns), and whether it ran the command
Outcome(h, ret, invoked, panic) ==
    [h |-> h, ret |-> ret, invoked |-> invoked, panic |-> panic]

\* The first check without its test of the command path
provider_configured_any_path(cfg) == cfg.provider = "command"

\* The first check: only run if provider is "command" and command is configured
provider_configured(cfg) == ~(cfg.provider # "command" \/ ~cfg.command.some)

\* The backoff comparison turned around
in_backoff_reversed(h, t) == h.backoff_until.some /\ t > h.backoff_until.v

\* now < backoff_until, for a set deadline
in_backoff(h, t) == h.backoff_until.some /\ t < h.backoff_until.v

\* now.duration_since(last_run): saturates at zero
duration_since(t, earlier) == IF t >= earlier THEN t - earlier ELSE 0

\* A jitter taken modulo 101: its two extremes
JitterValues_upto_100 == {0, 100}

\* (now.elapsed().as_nanos() % 100) lies in 0..99; its two extremes are followed
JitterValues == {0, 99}

\* The throttle comparison against the base cooldown alone
throttled_without_jitter(h, t, jitter_ms) ==
    /\ h.last_command_run.some
    /\ duration_since(t, h.last_command_run.v) < command_cooldown

\* now.duration_since(last_run) < command_cooldown + jitter_ms, for a recorded run
throttled(h, t, jitter_ms) ==
    /\ h.last_command_run.some
    /\ duration_since(t, h.last_command_run.v) < command_cooldown + jitter_ms

\* The arm Ok(Some(output))
on_success(h, t, line) ==
    Outcome([h EXCEPT !.last_command_run = Some(t), !.last_line3 = Some(line),
                      !.consecutive_failures = 0],
            Some(line), TRUE, FALSE)

\* The arm Ok(None), showing the empty result instead of the cached one
on_empty_clearing(h, t) ==
    Outcome([h EXCEPT !.last_command_run = Some(t), !.last_line3 = None,
                      !.consecutive_failures = 0],
            None, TRUE, FALSE)

\* The arm Ok(None), leaving the failure counter alone
on_empty_counting(h, t) ==
    Outcome([h EXCEPT !.last_command_run = Some(t)], h.last_line3, TRUE, FALSE)

\* The arm Ok(None)
on_empty(h, t) ==
    Outcome([h EXCEPT !.last_command_run = Some(t), !.consecutive_failures = 0],
            h.last_line3, TRUE, FALSE)

\* The arm Err(e), not recording the time of the run
on_error_stale_run(h, t, overflow_checks) ==
    LET h1 == [h EXCEPT !.consecutive_failures = h.consecutive_failures + 1]
    IN  IF h1.consecutive_failures >= 3
        THEN LET b == backoff_ms(h1.consecutive_failures, overflow_checks)
             IN  IF b.panic
                 THEN Outcome(h1, None, TRUE, TRUE)
                 ELSE Outcome([h1 EXCEPT !.backoff_until = Some(t + b.ms)],
                              h1.last_line3, TRUE, FALSE)
        ELSE Outcome(h1, h1.last_line3, TRUE, FALSE)

\* The arm Err(e)
on_error(h, t, overflow_checks) ==
    LET h1 == [h EXCEPT !.last_command_run = Some(t),
                        !.consecutive_failures = h.consecutive_failures + 1]
    IN  IF h1.consecutive_failures >= 3
        THEN LET b == backoff_ms(h1.consecutive_failures, overflow_checks)
             IN  IF b.panic
                 THEN Outcome(h1, None, TRUE, TRUE)
                 ELSE Outcome([h1 EXCEPT !.backoff_until = Some(t + b.ms)],
                              h1.last_line3, TRUE, FALSE)
        ELSE Outcome(h1, h1.last_line3, TRUE, FALSE)

\* The match on run_command_provider().await
run_and_record(cfg, h, t, proc, overflow_checks) ==
    LET res == run_command_provider(cfg, proc)
    IN  IF res.ok
        THEN IF res.v.some THEN on_success(h, t, res.v.v) ELSE on_empty(h, t)
        ELSE on_error(h, t, overflow_checks)

\* maybe_run_command_provider leaving an expired deadline in place
maybe_run_command_provider_keeping_deadline(cfg, h, t, jitter_ms, proc, overflow_checks) ==
    IF ~provider_configured(cfg) THEN Outcome(h, None, FALSE, FALSE)
    ELSE IF in_backoff(h, t) THEN Outcome(h, h.last_line3, FALSE, FALSE)
    ELSE IF throttled(h, t, jitter_ms)
         THEN Outcome(h, h.last_line3, FALSE, FALSE)
         ELSE run_and_record(cfg, h, t, proc, overflow_checks)

maybe_run_command_provider(cfg, h, t, jitter_ms, proc, overflow_checks) ==
    IF ~provider_configured(cfg) THEN Outcome(h, None, FALSE, FALSE)
    ELSE IF in_backoff(h, t) THEN Outcome(h, h.last_line3, FALSE, FALSE)
    ELSE LET h1 == [h EXCEPT !.backoff_until = None]   \* expired, or already none
         IN  IF throttled(h1, t, jitter_ms)
             THEN Outcome(h1, h1.last_line3, FALSE, FALSE)
             ELSE run_and_record(cfg, h1, t, proc, overflow_checks)

-----------------------------------------------------------------------------
(* tick *)

\* The body of tick up to the provider step, built from the refreshed state
\* only in the payload: line 2 is composed before the refresh
tick_views_line2_first(st0, items, info, counts) ==
    LET st == update_git_info(st0, info, counts)
    IN  [state |-> st, line2 |-> build_line2(st0, items),
         payload |-> build_command_payload(st)]

\* The body of tick up to the provider step: update_git_info().await, then
\* build_line2(); the payload is built from self.state inside
\* run_command_provider, when the provider step runs the command
tick_views(st0, items, info, counts) ==
    LET st == update_git_info(st0, info, counts)
    IN  [state |-> st, line2 |-> build_line2(st, items),
         payload |-> build_command_payload(st)]

\* tick(t): refresh git, build line 2, maybe run the provider.  The inputs are
\* what the git-info collaborator returns, the jitter read off the clock, what
\* the external command does if it is run, and the build's overflow checks.
tick(t, info, counts, jitter_ms, proc, overflow_checks) ==
    \E tv \in {tick_views(state, line2_items, info, counts)} :
    \E r \in {maybe_run_command_provider(config,
                  History(last_command_run, last_line3, consecutive_failures, backoff_until),
                  t, jitter_ms, proc, overflow_checks)} :
    \E res \in {run_command_provider(config, proc)} :
        /\ ~panicked
        /\ now' = t
        /\ state' = tv.state
        /\ last_command_run' = r.h.last_command_run
        /\ last_line3' = r.h.last_line3
        /\ consecutive_failures' = r.h.consecutive_failures
        /\ backoff_until' = r.h.backoff_until
        /\ panicked' = r.panic
        /\ output' = IF r.panic THEN output ELSE [line2 |-> tv.line2, line3 |-> r.ret]
        /\ last_call' = [op |-> "tick", invoked |-> r.invoked, proc |-> proc,
                         jitter_ms |-> jitter_ms,
                         failures_before |-> consecutive_failures,
                         child |-> IF r.invoked THEN child_after_run(config, proc) ELSE "none",
                         payload |-> IF r.invoked THEN Some(tv.payload) ELSE None,
                         git |-> IF state.cwd.some THEN Some(<<info, counts>>) ELSE None]
        /\ err_run' = IF r.invoked THEN (IF res.ok THEN 0 ELSE err_run + 1) ELSE err_run
        /\ last_success' = IF r.invoked /\ res.ok /\ res.v.some THEN res.v ELSE last_success
        /\ UNCHANGED <<config, line2_items, config_arg, pc>>

\* The collaborator is asked only when the session has a working directory.
InfoAnswers == IF state.cwd.some THEN GitInfoResults ELSE {None}

CountAnswers == IF state.cwd.some THEN DiffCountResults ELSE {None}

\* The jitter takes part only in the throttle comparison, which is made once
\* the provider and backoff checks are passed and a last run is recorded.
JitterAnswers(t) ==
    IF provider_configured(config) /\ last_command_run.some
       /\ ~in_backoff(History(last_command_run, last_line3, consecutive_failures, backoff_until), t)
    THEN JitterValues ELSE {0}

\* The command does something only when it is run.
ProcAnswers(t, jitter_ms, procs) ==
    IF maybe_run_command_provider(config,
           History(last_command_run, last_line3, consecutive_failures, backoff_until),
           t, jitter_ms, NoProc, FALSE).invoked
    THEN procs ELSE {NoProc}

\* A call of tick by a host whose clock advances by one of `deltas` up to
\* `limit`, with an external command that behaves as one of `procs`.
TickWith(deltas, limit, procs) ==
    \E d \in deltas :
        /\ now + d <= limit
        /\ \E info \in InfoAnswers, counts \in CountAnswers, jitter_ms \in JitterAnswers(now + d) :
             \E proc \in ProcAnswers(now + d, jitter_ms, procs), overflow_checks \in BOOLEAN :
                tick(now + d, info, counts, jitter_ms, proc, overflow_checks)

-----------------------------------------------------------------------------
(* tick as the executor polls it.  The future of tick is suspended at an    *)
(* .await whose future is not ready: at collect_git_info and at             *)
(* working_diff_counts in update_git_info, and at the timeout() future in   *)
(* run_command_provider once the child is spawned.  Between two such points *)
(* the code runs without interruption.  The host cancels a tick by dropping *)
(* its future while it is suspended.                                        *)

\* The tick in flight: the await it is suspended at, the Instant it was called
\* with, the run history at the call, and what it has been answered so far
Suspended(at, t, before, info, git, jitter_ms) ==
    [at |-> at, now |-> t, before |-> before, info |-> info, git |-> git,
     jitter_ms |-> jitter_ms]

\* The run history at the await of the runner, had the time of the run been
\* recorded before the await
before_runner_recording(h, t) ==
    [h EXCEPT !.backoff_until = None, !.last_command_run = Some(t)]

\* The run history when maybe_run_command_provider awaits the runner: all it
\* has written is the clearing of an expired deadline
before_runner(h, t) == [h EXCEPT !.backoff_until = None]

\* tick returns its output, the outcome r of the provider step being applied
tick_returns(t, st, git, jitter_ms, proc, r) ==
    \E res \in {run_command_provider(config, proc)} :
        /\ now' = t
        /\ state' = st
        /\ last_command_run' = r.h.last_command_run
        /\ last_line3' = r.h.last_line3
        /\ consecutive_failures' = r.h.consecutive_failures
        /\ backoff_until' = r.h.backoff_until
        /\ panicked' = r.panic
        /\ output' = IF r.panic THEN output
                     ELSE [line2 |-> build_line2(st, line2_items), line3 |-> r.ret]
        /\ last_call' = [op |-> "tick", invoked |-> r.invoked, proc |-> proc,
                         jitter_ms |-> jitter_ms,
                         failures_before |-> consecutive_failures,
                         child |-> IF r.invoked THEN child_after_run(config, proc) ELSE "none",
                         payload |-> IF r.invoked THEN Some(build_command_payload(st)) ELSE None,
                         git |-> git]
        /\ err_run' = IF r.invoked THEN (IF res.ok THEN 0 ELSE err_run + 1) ELSE err_run
        /\ last_success' = IF r.invoked /\ res.ok /\ res.v.some THEN res.v ELSE last_success
        /\ pc' = Idle
        /\ UNCHANGED <<config, line2_items, config_arg>>

\* tick from build_line2 on, the state being st after update_git_info.  A call
\* that is not to run the command returns at once, as does one whose spawn
\* fails (spawn()? is before the first await of the runner); otherwise the
\* child is spawned and the tick is suspended at the runner.
provider_step(t, st, before, git) ==
    \E jitter_ms \in JitterAnswers(t) :
    \E h \in {History(last_command_run, last_line3, consecutive_failures, backoff_until)} :
    \E r \in {maybe_run_command_provider(config, h, t, jitter_ms, NoProc, FALSE)} :
        IF ~r.invoked
        THEN tick_returns(t, st, git, jitter_ms, NoProc, r)
        ELSE \/ \E overflow_checks \in BOOLEAN :
                  tick_returns(t, st, git, jitter_ms, Proc("spawn_err", FALSE, <<>>),
                               maybe_run_command_provider(config, h, t, jitter_ms,
                                   Proc("spawn_err", FALSE, <<>>), overflow_checks))
             \/ /\ now' = t
                /\ state' = st
                /\ last_command_run' = before_runner(h, t).last_command_run
                /\ last_line3' = before_runner(h, t).last_line3
                /\ consecutive_failures' = before_runner(h, t).consecutive_failures
                /\ backoff_until' = before_runner(h, t).backoff_until
                /\ pc' = Suspended("run_command_provider", t, before, None, git, jitter_ms)
                /\ UNCHANGED <<config, line2_items, config_arg, panicked, output,
                               last_call, err_run, last_success>>

\* The host calls tick(now + d): the future runs up to its first suspension
TickBegin(deltas, limit) ==
    \E d \in deltas :
    \E h \in {History(last_command_run, last_line3, consecutive_failures, backoff_until)} :
        /\ pc = Idle
        /\ ~panicked
        /\ now + d <= limit
        /\ IF state.cwd.some
           THEN /\ now' = now + d
                /\ pc' = Suspended("collect_git_info", now + d, h, None, None, 0)
                /\ UNCHANGED <<config, state, line2_items, history, panicked, output,
                               config_arg, last_call, err_run, last_success>>
           ELSE provider_step(now + d, state, h, None)

\* collect_git_info(cwd).await is ready: the branch is assigned, and the tick
\* is suspended at working_diff_counts
GitInfoReturns ==
    \E info \in GitInfoResults :
        /\ pc.at = "collect_git_info"
        /\ state' = IF info.some THEN [state EXCEPT !.git_branch = info.v.branch] ELSE state
        /\ pc' = [pc EXCEPT !.at = "working_diff_counts", !.info = Some(info)]
        /\ UNCHANGED <<config, line2_items, history, panicked, now, output,
                       config_arg, last_call, err_run, last_success>>

\* working_diff_counts(cwd).await is ready: the counts are assigned, and the
\* tick goes on to build_line2 and the provider step
DiffCountsReturns ==
    \E counts \in DiffCountResults :
        /\ pc.at = "working_diff_counts"
        /\ provider_step(pc.now,
                         IF counts.some
                         THEN [state EXCEPT !.git_counts =
                                  Some(FormatCounts(counts.v[1], counts.v[2]))]
                         ELSE state,
                         pc.before, Some(<<pc.info.v, counts>>))

\* The future under timeout() is ready, the child having done one of `procs`:
\* the match arm is applied and tick returns, with no await in between
RunnerReturns(procs) ==
    \E proc \in procs, overflow_checks \in BOOLEAN :
        /\ pc.at = "run_command_provider"
        /\ tick_returns(pc.now, state, pc.git, pc.jitter_ms, proc,
                        run_and_record(config,
                            History(last_command_run, last_line3, consecutive_failures,
                                    backoff_until),
                            pc.now, proc, overflow_checks))

\* The host drops the future of the suspended tick.  A child that was spawned
\* is dropped with it.
Cancel ==
    /\ pc # Idle
    /\ pc' = Idle
    /\ last_call' = [op |-> "tick_cancelled", at |-> pc.at, now |-> pc.now,
                     before |-> pc.before,
                     child |-> IF pc.at = "run_command_provider"
                               THEN drop_child("running") ELSE "none"]
    /\ UNCHANGED <<config, state, line2_items, history, panicked, now, output,
                   config_arg, err_run, last_success>>

-----------------------------------------------------------------------------
(* Spec: the provider policy.  The host ticks an engine whose session has   *)
(* no working directory, at every spacing around the throttle and backoff   *)
(* windows, against a command that may do anything.                         *)

\* How far the host's clock advances between two calls of tick
Deltas == {0, 100, 300, 400, 1000}

Tick == TickWith(Deltas, MaxTime, ProcResults)

Next == Tick

Spec == Init /\ [][Next]_vars

-----------------------------------------------------------------------------
(* SpecSession: the host's updates.  The host replaces the session state    *)
(* and the selection between ticks 400 ms apart; the git-info collaborator  *)
(* answers anything and the command fails to spawn or prints a line.        *)

SessionDeltas == {400}

SessionProcs == { Proc("spawn_err", FALSE, <<>>), Proc("exit", TRUE, <<"y", "\r", "\n">>) }

TickSession == TickWith(SessionDeltas, MaxTime, SessionProcs)

NextSession == SetState \/ SetLine2Selection \/ TickSession

SpecSession == Init /\ [][NextSession]_vars

-----------------------------------------------------------------------------
(* SpecThrottle: the edge of the cooldown.  The host ticks 199, 200 or 399   *)
(* ms apart, so that a call comes 398, 399 and 400 ms after an invocation.  *)

ThrottleDeltas == {199, 200, 399}

TickThrottle == TickWith(ThrottleDeltas, MaxTime, SessionProcs)

SpecThrottle == Init /\ [][TickThrottle]_vars

-----------------------------------------------------------------------------
(* SpecHostGit: git fields supplied by the host.  The engine holds a state  *)
(* with or without a working directory, whose model, branch and counts the  *)
(* host has set, and is ticked 400 ms apart.                                *)

HostStates ==
    { [DefaultState EXCEPT !.model = m, !.git_branch = b, !.git_counts = c, !.cwd = d] :
        m \in {None, Some(sModel)}, b \in {None, Some(sMain)},
        c \in {None, Some(sCounts)}, d \in {None, Some(sDir)} }

SpecHostGit == InitEngine(ConfigArgs, HostStates, SelectionArgs) /\ [][TickSession]_vars

-----------------------------------------------------------------------------
(* SpecCancel: a host that may drop a tick.  Ticks are called 300 or 1000   *)
(* ms apart, on a session with or without a working directory; a spawned    *)
(* command fails at its pipe or prints a line.                              *)

CancelDeltas == {300, 1000}

CancelProcs == { Proc("io_err", FALSE, <<>>), Proc("exit", TRUE, <<"y", "\r", "\n">>) }

CancelTickBegin == TickBegin(CancelDeltas, MaxTime)

CancelRunnerReturns == RunnerReturns(CancelProcs)

NextCancel ==
    CancelTickBegin \/ GitInfoReturns \/ DiffCountsReturns \/ CancelRunnerReturns \/ Cancel

SpecCancel ==
    InitEngine({[command_timeout_ms |-> 300, command |-> Some(sCmd), enabled |-> TRUE,
                 provider |-> "command"]}, StateArgs, {DefaultItems})
    /\ [][NextCancel]_vars

-----------------------------------------------------------------------------
(* SpecBackoff: a command that never spawns.  The host ticks every second   *)
(* or every five seconds, so that the run of failures grows to MaxFailures. *)

BackoffDeltas == {1000, 5000}

TickFailing ==
    /\ consecutive_failures < MaxFailures
    /\ TickWith(BackoffDeltas, 5000 * MaxFailures, { Proc("spawn_err", FALSE, <<>>) })

SpecBackoff == Init /\ [][TickFailing]_vars

-----------------------------------------------------------------------------
(* SpecLive: a host that keeps calling tick.  The command never spawns, the *)
(* host ticks 2500 or 5000 ms apart, every call advances the clock, and the  *)
(* host makes its next call whenever one can be made.                        *)

LiveDeltas == {2500, 5000}

TickLive ==
    /\ consecutive_failures < MaxFailures
    /\ TickWith(LiveDeltas, 5000 * MaxFailures, { Proc("spawn_err", FALSE, <<>>) })

SpecLive ==
    /\ InitEngine({[command_timeout_ms |-> 300, command |-> Some(sCmd), enabled |-> TRUE,
                    provider |-> "command"]}, {DefaultState}, {DefaultItems})
    /\ [][TickLive]_vars
    /\ WF_vars(TickLive)

-----------------------------------------------------------------------------
(* SpecCompose: build_line2 over every combination of present and absent    *)
(* display fields and every selection of up to MaxSel items.                *)

\* An optional field: absent, or holding x
Opt(x) == {None, Some(x)}

DisplayStates ==
    { [DefaultState EXCEPT !.model = m, !.effort = e, !.workspace_name = w,
                           !.git_branch = b, !.git_counts = c, !.sandbox = sb,
                           !.approval = a] :
        m \in Opt(sModel), e \in Opt(sEffort), w \in Opt(sWorkspace), b \in Opt(sMain),
        c \in Opt(sCounts), sb \in Opt(sSandbox), a \in Opt(sApproval) }

Selections == UNION { [1..n -> {DefaultItems[i] : i \in 1..Len(DefaultItems)}] : n \in 0..MaxSel }

\* A call of the public build_line2
BuildLine2 ==
    /\ last_call' = [op |-> "build_line2", ret |-> build_line2(state, line2_items)]
    /\ UNCHANGED <<config, state, line2_items, history, panicked, now, output,
                   config_arg, err_run, last_success, pc>>

SpecCompose ==
    InitEngine({[command_timeout_ms |-> 300, command |-> None, enabled |-> FALSE,
                 provider |-> "builtin"]}, DisplayStates, Selections)
    /\ [][BuildLine2]_vars

-----------------------------------------------------------------------------
(* SpecPayload: build_command_payload over every combination of present and *)
(* absent session-state fields.                                             *)

PayloadStates ==
    { [model |-> m, effort |-> e, workspace_name |-> w, git_branch |-> b,
       git_counts |-> c, sandbox |-> sb, approval |-> a, since_session_ms |-> t,
       cwd |-> d] :
        m \in Opt(sModel), e \in Opt(sEffort), w \in Opt(sWorkspace), b \in Opt(sMain),
        c \in Opt(sCounts), sb \in Opt(sSandbox), a \in Opt(sApproval), t \in Opt(1500),
        d \in Opt(sDir) }

\* The payload run_command_provider builds from the state
BuildCommandPayload ==
    /\ last_call' = [op |-> "build_command_payload", ret |-> build_command_payload(state)]
    /\ UNCHANGED <<config, state, line2_items, history, panicked, now, output,
                   config_arg, err_run, last_success, pc>>

SpecPayload ==
    InitEngine({[command_timeout_ms |-> 300, command |-> Some(sCmd), enabled |-> TRUE,
                 provider |-> "command"]}, PayloadStates, {DefaultItems})
    /\ [][BuildCommandPayload]_vars

-----------------------------------------------------------------------------
(* SpecTruncate: truncate_with_ellipsis over every text of up to MaxTextLen *)
(* characters drawn from a, b and e-acute, and every width up to MaxWidth.  *)

Texts == UNION { [1..n -> {"a", "b", EAcute}] : n \in 0..MaxTextLen }

\* The arguments of the calls of the public associated function
TruncateArgs ==
    { [op |-> "args", text |-> text, max_width |-> max_width] :
        text \in Texts, max_width \in 0..MaxWidth }

\* The call returns
Truncate ==
    /\ last_call.op = "args"
    /\ last_call' = [op |-> "truncate_with_ellipsis", text |-> last_call.text,
                     max_width |-> last_call.max_width,
                     ret |-> truncate_with_ellipsis(last_call.text, last_call.max_width)]
    /\ UNCHANGED <<config, state, line2_items, history, panicked, now, output,
                   config_arg, err_run, last_success, pc>>

SpecTruncate == InitCall({DefaultState}, {DefaultItems}, TruncateArgs) /\ [][Truncate]_vars

-----------------------------------------------------------------------------
(* SpecWidth: get_line2_with_width over short and long tokens, selections   *)
(* of up to MaxSel items and every width up to MaxLineWidth.                *)

WidthStates ==
    { [DefaultState EXCEPT !.model = m, !.git_branch = b, !.git_counts = c] :
        m \in {None, Some(sModel), Some(sMidModel), Some(sLongModel)},
        b \in {None, Some(sMain), Some(sLongBranch), Some(sAccentBranch)},
        c \in Opt(sCounts) }

\* The argument of the calls of the public get_line2_with_width
WidthArgs == { [op |-> "args", max_width |-> max_width] : max_width \in 0..MaxLineWidth }

\* The call returns
GetLine2WithWidth ==
    /\ last_call.op = "args"
    /\ last_call' = [op |-> "get_line2_with_width", max_width |-> last_call.max_width,
                     ret |-> get_line2_with_width(state, line2_items, last_call.max_width)]
    /\ UNCHANGED <<config, state, line2_items, history, panicked, now, output,
                   config_arg, err_run, last_success, pc>>

SpecWidth == InitCall(WidthStates, Selections, WidthArgs) /\ [][GetLine2WithWidth]_vars
-----------------------------------------------------------------------------
(* Properties *)

\* The most recent operation was a tick that ran the command
Ran == last_call.op = "tick" /\ last_call.invoked

\* ... and the runner's result was Err, Ok(None), Ok(Some(_))
RanError == Ran /\ last_call.proc.kind \in {"spawn_err", "io_err"}

RanTimeoutOrFailedExit ==
    Ran /\ (last_call.proc.kind = "timeout"
            \/ (last_call.proc.kind = "exit" /\ ~last_call.proc.success))

\* C1: with the command provider configured, the third Err of the runner in a
\* row sets a backoff deadline at least 1000 ms after the time of that call, and
\* a call whose time is before a set deadline does not run the command, returns
\* the cached line and leaves the run history as it was.
C1_BackoffAfterThreeErrors ==
    [][ /\ (RanError /\ err_run = 3)' =>
              (backoff_until.some /\ backoff_until.v >= now + 1000)'
        /\ (last_call'.op = "tick" /\ backoff_until.some /\ now' < backoff_until.v) =>
              /\ ~last_call'.invoked
              /\ output'.line3 = last_line3
              /\ history' = history ]_vars

\* A call inside the backoff window opened by the third Err has returned.
C1_Witness ==
    /\ err_run = 3
    /\ last_call.op = "tick" /\ ~last_call.invoked
    /\ backoff_until.some /\ now < backoff_until.v
    /\ last_command_run.some /\ now >= last_command_run.v + 400
    /\ last_line3.some

\* C2: once the runner has returned a line, the cached output is that line of
\* its most recent success, and every tick returns it as the secondary line,
\* whatever the tick met (throttle, backoff, empty result, error).
C2_LastSuccessShown ==
    last_success.some =>
        /\ last_line3 = last_success
        /\ last_call.op = "tick" => output.line3 = last_success

\* After a success, three errors, inside the backoff window: the line is shown.
C2_Witness ==
    /\ last_success.some /\ err_run = 3
    /\ last_call.op = "tick" /\ ~last_call.invoked
    /\ backoff_until.some /\ now < backoff_until.v
    /\ output.line3 = last_success

\* C3: a tick whose runner result is Ok(None), made while a line is cached,
\* returns the cached line, leaves the cache unchanged and zeroes
\* consecutive_failures.
C3_EmptyKeepsLine ==
    [][ (Ran' /\ run_command_provider(config, last_call'.proc) = Ok(None) /\ last_line3.some) =>
            /\ output'.line3 = last_line3
            /\ last_line3' = last_line3
            /\ consecutive_failures' = 0 ]_vars

\* An empty result met with a cached line and two failures counted.
C3_Witness ==
    /\ Ran /\ last_call.proc = Proc("exit", TRUE, <<>>)
    /\ last_call.failures_before = 2
    /\ last_line3.some /\ output.line3 = last_line3
    /\ consecutive_failures = 0

\* C4: a tick made less than command_cooldown + jitter after the recorded last
\* run (the jitter counting as 0 where the code does not read it) does not run
\* the command and returns the cached line, which is also what the tick before
\* it returned.
C4_Throttle ==
    [][ (/\ last_call'.op = "tick"
         /\ last_command_run.some
         /\ now' - last_command_run.v < 300 + last_call'.jitter_ms) =>
            /\ ~last_call'.invoked
            /\ last_line3' = last_line3
            /\ output'.line3 = last_line3
            /\ last_call.op = "tick" => output'.line3 = output.line3 ]_vars

\* A tick 300 ms after the last run, outside backoff, throttled by the jitter.
C4_Witness ==
    /\ last_call.op = "tick" /\ ~last_call.invoked
    /\ last_call.jitter_ms = 99
    /\ backoff_until = None
    /\ last_command_run.some /\ now = last_command_run.v + 300
    /\ output.line3 = last_line3 /\ last_line3.some

\* min(5000, 1000 * 2^(n-3)) over the integers: 1000 * 2^k exceeds 5000 from k = 3 on
Window(n) == IF n - 3 >= 3 THEN 5000 ELSE 1000 * Pow2(n - 3)

\* C5: every Err of the runner that brings consecutive_failures to n >= 3 sets
\* the backoff deadline exactly min(5000, 1000 * 2^(n-3)) ms after the call, for
\* every n a run of failures reaches.
C5_WindowFormula ==
    (RanError /\ consecutive_failures >= 3) =>
        /\ ~panicked
        /\ backoff_until = Some(now + Window(consecutive_failures))

\* C6: after a tick of a session with a working directory, the git branch and
\* the git counts of the state are what the git-info collaborator returned in
\* that tick, absence included, and the primary line is built from them.
C6_RefreshOverwrites ==
    (last_call.op = "tick" /\ last_call.git.some) =>
        LET info == last_call.git.v[1]
            counts == last_call.git.v[2]
        IN  /\ state.git_branch = IF info.some THEN info.v.branch ELSE None
            /\ state.git_counts = IF counts.some
                                  THEN Some(FormatCounts(counts.v[1], counts.v[2]))
                                  ELSE None
            /\ output.line2 = build_line2(state, line2_items)

\* C7: with provider builtin or no command path, the run history stays as
\* constructed and every tick returns no secondary line without running the
\* command.
C7_ProviderOff ==
    (config.provider # "command" \/ config.command = None) =>
        /\ last_command_run = None /\ last_line3 = None
        /\ consecutive_failures = 0 /\ backoff_until = None
        /\ output.line3 = None
        /\ last_call.op = "tick" => ~last_call.invoked

\* A tick of an engine with provider "command" and no path, after updates.
C7_Witness ==
    /\ config.provider = "command" /\ config.command = None
    /\ last_call.op = "tick" /\ now >= 800
    /\ state.model.some /\ line2_items # DefaultItems
    /\ output.line2 # <<>>

\* C8: a run that times out or exits non-zero zeroes consecutive_failures, sets
\* no backoff deadline and returns the cached line; consecutive_failures grows
\* (by one) exactly on a failure to spawn, write or read.
C8_TimeoutAndExitAreEmpty ==
    /\ RanTimeoutOrFailedExit =>
          /\ consecutive_failures = 0 /\ err_run = 0
          /\ backoff_until = None
          /\ output.line3 = last_line3
    /\ Ran => IF last_call.proc.kind \in {"spawn_err", "io_err"}
              THEN consecutive_failures = last_call.failures_before + 1
              ELSE consecutive_failures = 0

\* A timeout met with two failures counted.
C8_Witness ==
    /\ Ran /\ last_call.proc.kind = "timeout"
    /\ last_call.failures_before = 2
    /\ consecutive_failures = 0 /\ backoff_until = None

\* C9: a tick that ran the command leaves last_command_run at the time passed
\* to it, whatever the runner's result.
C9_LastRunRecorded == Ran => last_command_run = Some(now)

\* A failed run at a later time, recorded.
C9_Witness ==
    /\ RanError /\ now > 0 /\ last_call.failures_before = 1
    /\ last_command_run = Some(now)

\* C10: the configuration is the constructor's argument with the timeout
\* clamped into [150, 500] and any provider other than "command" and "builtin"
\* replaced by "builtin", in every state.
C10_ConfigValidated ==
    /\ config.command_timeout_ms \in 150..500
    /\ config.provider \in {"builtin", "command"}
    /\ config.command_timeout_ms =
          IF config_arg.command_timeout_ms < 150 THEN 150
          ELSE IF config_arg.command_timeout_ms > 500 THEN 500
          ELSE config_arg.command_timeout_ms
    /\ config.provider =
          IF config_arg.provider \in {"builtin", "command"} THEN config_arg.provider
          ELSE "builtin"
    /\ config.command = config_arg.command
    /\ config.enabled = config_arg.enabled

\* An engine built with timeout 9000 and provider "shell", after updates and ticks.
C10_Witness ==
    /\ config_arg.command_timeout_ms = 9000 /\ config_arg.provider = "shell"
    /\ config.command_timeout_ms = 500 /\ config.provider = "builtin"
    /\ last_call.op = "tick" /\ now >= 800
    /\ state.model.some /\ line2_items # DefaultItems

\* C11: when a tick has returned, the process it spawned is not running: it
\* has exited, or it was killed when its Child was dropped, which is what
\* happens on a timeout.
C11_NoOrphan ==
    last_call.op = "tick" =>
        /\ last_call.child \in {"none", "exited", "killed"}
        /\ (last_call.invoked /\ last_call.proc.kind = "timeout") => last_call.child = "killed"

\* A run that timed out, with its process killed.
C11_Witness ==
    /\ Ran /\ last_call.proc.kind = "timeout"
    /\ last_call.child = "killed"
    /\ output.line3 = last_line3

\* C12: every call of tick returns an output pair, whose secondary line is the
\* cached one, for every result of the runner and after every run history, a
\* long run of failures included.
C12_TickReturns ==
    last_call.op = "tick" =>
        /\ ~panicked
        /\ output.line3 = last_line3

\* The git branch and counts a payload carries, absent where it has no key
PayloadBranch(payload) ==
    IF "git" \in DOMAIN payload /\ "branch" \in DOMAIN payload["git"].obj
    THEN Some(payload["git"].obj["branch"].str) ELSE None

PayloadCounts(payload) ==
    IF "git" \in DOMAIN payload /\ "counts" \in DOMAIN payload["git"].obj
    THEN Some(payload["git"].obj["counts"].str) ELSE None

\* C13: the primary line a tick returns is composed from the state as the git
\* refresh of that tick left it, and the payload the tick sends to the command
\* carries the branch and counts of that same state.
C13_TickOrder ==
    last_call.op = "tick" =>
        /\ output.line2 = build_line2(state, line2_items)
        /\ (last_call.git.some /\ last_call.git.v[1].some) =>
              state.git_branch = last_call.git.v[1].v.branch
        /\ last_call.invoked =>
              /\ PayloadBranch(last_call.payload.v) = state.git_branch
              /\ PayloadCounts(last_call.payload.v) = state.git_counts

\* A tick whose refresh changed branch and counts and which ran the command.
C13_Witness ==
    /\ Ran /\ last_call.git.some
    /\ last_call.git.v[1] = Some([branch |-> Some(sDev)])
    /\ last_call.git.v[2].some
    /\ state.git_branch = Some(sDev)
    /\ "GitBranch" \in {line2_items[i] : i \in 1..Len(line2_items)}
    /\ PayloadBranch(last_call.payload.v) = Some(sDev)

\* C14: set_state and set_line2_selection leave the provider run history as it
\* is and put their argument in place of the session state, of the selection,
\* touching nothing else; only a tick changes the run history.
C14_HostUpdatesFrame ==
    [][ /\ last_call'.op = "set_state" =>
              /\ history' = history
              /\ state' = last_call'.arg
              /\ line2_items' = line2_items
        /\ last_call'.op = "set_line2_selection" =>
              /\ history' = history
              /\ line2_items' = last_call'.arg
              /\ state' = state
        /\ history' # history => last_call'.op = "tick" ]_vars

\* The default state put in place of a state that had a model and a branch,
\* in an engine with a run history.
C14_Witness ==
    /\ last_call.op = "set_state" /\ last_call.arg = DefaultState
    /\ state = DefaultState
    /\ output.line2 # <<>>
    /\ last_command_run.some /\ last_line3.some

\* Whether the state holds the field of an item, and the token the item is shown as
Present(st, item) ==
    CASE item = "Model" -> st.model.some [] item = "Effort" -> st.effort.some
      [] item = "WorkspaceName" -> st.workspace_name.some
      [] item = "GitBranch" -> st.git_branch.some
      [] item = "Sandbox" -> st.sandbox.some [] item = "Approval" -> st.approval.some

Rendered(st, item) ==
    CASE item = "Model" -> st.model.v [] item = "Effort" -> st.effort.v
      [] item = "WorkspaceName" -> st.workspace_name.v
      [] item = "GitBranch" -> IF st.git_counts.some
                               THEN st.git_branch.v \o <<" ">> \o st.git_counts.v
                               ELSE st.git_branch.v
      [] item = "Sandbox" -> st.sandbox.v [] item = "Approval" -> st.approval.v

PresentNow(item) == Present(state, item)

RECURSIVE Glued(_)
\* Tokens with " | " between neighbours
Glued(tokens) ==
    IF Len(tokens) = 0 THEN <<>>
    ELSE IF Len(tokens) = 1 THEN tokens[1]
    ELSE Glued(SubSeq(tokens, 1, Len(tokens) - 1)) \o <<" ", "|", " ">> \o tokens[Len(tokens)]

\* C15: build_line2 returns the tokens of the selected items whose field is
\* present, in selection order with duplicates kept, joined by " | "; with no
\* such item it returns the empty string.
C15_Line2IsJoinOfSelected ==
    last_call.op = "build_line2" =>
        LET shown == SelectSeq(line2_items, PresentNow)
        IN  /\ last_call.ret = Glued([i \in 1..Len(shown) |-> Rendered(state, shown[i])])
            /\ Len(shown) = 0 => last_call.ret = <<>>

\* The branch item selected twice, with branch and counts present.
C15_Witness ==
    /\ last_call.op = "build_line2"
    /\ line2_items = <<"GitBranch", "GitBranch">>
    /\ state.git_branch.some /\ state.git_counts.some /\ state.model.some
    /\ last_call.ret = sMain \o <<" ">> \o sCounts \o <<" ", "|", " ">> \o sMain \o <<" ">> \o sCounts

Truncated == last_call.op = "truncate_with_ellipsis"

\* C16: for a text of more than W characters and W >= 3, the result has W
\* characters: the first floor((W-1)/2) of the text, the ellipsis, and the last
\* W - 1 - floor((W-1)/2) of the text.
C16_CenterEllipsis ==
    (Truncated /\ last_call.max_width >= 3 /\ Len(last_call.text) > last_call.max_width) =>
        LET w == last_call.max_width
            n == Len(last_call.text)
            left == (w - 1) \div 2
            right == (w - 1) - left
        IN  /\ Len(last_call.ret) = w
            /\ last_call.ret = SubSeq(last_call.text, 1, left) \o <<Ellipsis>>
                               \o SubSeq(last_call.text, n - right + 1, n)

\* C17: a text of at most W characters is returned unchanged.
C17_FitsUnchanged ==
    (Truncated /\ Len(last_call.text) <= last_call.max_width) =>
        last_call.ret = last_call.text

JoinedWithWidth ==
    Join(PartsWithWidth(state, line2_items, 1, <<>>, last_call.max_width), Separator)

\* C19: the line returned for max_width has at most max_width characters, and
\* a joined line longer than max_width is returned center-truncated to it.
C19_FitsWidth ==
    last_call.op = "get_line2_with_width" =>
        /\ Len(last_call.ret) <= last_call.max_width
        /\ Len(JoinedWithWidth) > last_call.max_width =>
               last_call.ret = truncate_with_ellipsis(JoinedWithWidth, last_call.max_width)

\* The branch token was cut to its budget, the long model name after it made
\* the joined line too long all the same, and the whole line was cut again.
C19_Witness ==
    /\ last_call.op = "get_line2_with_width"
    /\ line2_items = <<"GitBranch", "Model">>
    /\ state.git_branch = Some(sLongBranch) /\ state.model = Some(sLongModel)
    /\ last_call.max_width = 20
    /\ Len(JoinedWithWidth) > last_call.max_width
    /\ Ellipsis \in {JoinedWithWidth[i] : i \in 1..Len(JoinedWithWidth)}
    /\ last_call.ret # JoinedWithWidth
    /\ Len(last_call.ret) <= last_call.max_width

\* C20: a top-level key of the payload is present exactly when one of its
\* source fields is, and a nested key exactly when its own field is.
C20_KeysIffPresent ==
    last_call.op = "build_command_payload" =>
        LET p == last_call.ret
            has(k) == k \in DOMAIN p
            nested(k, n) == has(k) /\ n \in DOMAIN p[k].obj
        IN  /\ has("model") <=> state.model.some
            /\ has("effort") <=> state.effort.some
            /\ has("workspace") <=> (state.workspace_name.some \/ state.cwd.some)
            /\ has("cwd") <=> state.cwd.some
            /\ has("git") <=> (state.git_branch.some \/ state.git_counts.some)
            /\ has("sandbox") <=> state.sandbox.some
            /\ has("approval") <=> state.approval.some
            /\ has("timing") <=> state.since_session_ms.some
            /\ nested("workspace", "name") <=> state.workspace_name.some
            /\ nested("workspace", "current_dir") <=> state.cwd.some
            /\ nested("git", "branch") <=> state.git_branch.some
            /\ nested("git", "counts") <=> state.git_counts.some
            /\ nested("timing", "since_session_ms") <=> state.since_session_ms.some

\* The positions in the selection of the items whose token is present
PresentPositions ==
    LET present(k) == Token(state, line2_items[k]).some
    IN  SelectSeq([k \in 1..Len(line2_items) |-> k], present)

\* C21: counted in columns, a part of the width-aware line differs from the
\* full token only if it is the branch token, longer than its budget
\* (max_width less the parts and separators before it and 15 columns per item
\* after it), and that budget exceeds 3; and a joined line that fits
\* max_width is returned as it is, every other token in full and in order.
C21_OnlyBranchShortened ==
    last_call.op = "get_line2_with_width" =>
        LET w == last_call.max_width
            pos == PresentPositions
            cut == PartsWithWidth(state, line2_items, 1, <<>>, w)
            full(i) == Token(state, line2_items[pos[i]]).v
            before(i) == Len(Join(SubSeq(cut, 1, i - 1), Separator))
                         + (IF i > 1 THEN Len(Separator) ELSE 0)
            budget(i) == saturating_sub(w, before(i) + 15 * (Len(line2_items) - pos[i]))
        IN  /\ Len(cut) = Len(pos)
            /\ \A i \in 1..Len(cut) :
                 cut[i] # full(i) =>
                    /\ line2_items[pos[i]] = "GitBranch"
                    /\ Len(full(i)) > budget(i)
                    /\ budget(i) > 3
            /\ Len(JoinedWithWidth) <= w => last_call.ret = JoinedWithWidth

\* C22: the jitter lies in 0..99, so with the provider configured and no
\* backoff deadline ahead, a tick with no invocation recorded, or 399 ms or
\* more after the last one, runs the command whatever the jitter is.
C22_CooldownAtMost399 ==
    [][ (/\ last_call'.op = "tick"
         /\ provider_configured(config)
         /\ ~(backoff_until.some /\ now' < backoff_until.v)
         /\ (~last_command_run.some \/ now' - last_command_run.v >= 399)) =>
            /\ last_call'.jitter_ms \in 0..99
            /\ last_call'.invoked ]_vars

\* A tick at 598 with the largest jitter ran the command: the invocation
\* before it was the first tick's, at 199 (a tick at 398 or 399 would have
\* been throttled, and 200 is less than 300 ms back), 399 ms earlier.
C22_Witness ==
    /\ Ran /\ now = 598 /\ last_call.jitter_ms = 99
    /\ last_command_run = Some(598)

\* C23: a tick that does not run the command (throttled, inside backoff, or
\* provider off) leaves consecutive_failures alone, as does the expiry of a
\* deadline; an Err adds one and, from the third on, opens the window
\* 1000, 2000, 4000, 5000, 5000, ... for as long as the failures go on; a
\* Success or an Empty sets the counter to zero.
C23_FailureCounter ==
    [][ last_call'.op = "tick" =>
           /\ ~last_call'.invoked => consecutive_failures' = consecutive_failures
           /\ RanError' =>
                 /\ consecutive_failures' = consecutive_failures + 1
                 /\ consecutive_failures' >= 3 =>
                       /\ ~panicked'
                       /\ backoff_until' = Some(now' + Window(consecutive_failures'))
           /\ (Ran' /\ ~RanError') => consecutive_failures' = 0 ]_vars

\* Whether `part` occurs in `text`: str::contains
Contains(text, part) ==
    \E i \in 1..(Len(text) + 1) : SubSeq(text, i, i + Len(part) - 1) = part

Selected(item) == item \in {line2_items[i] : i \in 1..Len(line2_items)}

C25_HistoryConsistent ==
    /\ backoff_until.some =>
          /\ consecutive_failures >= 3
          /\ last_command_run.some
          /\ backoff_until.v = last_command_run.v
                               + backoff_ms(consecutive_failures, FALSE).ms
    /\ last_line3.some => last_command_run.some

\* Inside the backoff opened by a fourth failure, with a line cached before.
C25_Witness ==
    /\ last_call.op = "tick" /\ ~last_call.invoked
    /\ consecutive_failures = 4 /\ last_line3.some
    /\ backoff_until = Some(last_command_run.v + 2000)
    /\ now < backoff_until.v

\* A tick of an engine with the command provider that did not run the command
Refused == last_call.op = "tick" /\ ~last_call.invoked /\ provider_configured(config)

\* C26: with the command provider, a tick 5000 ms or more after the last run
\* runs the command, whatever the failure count and the deadline are; and a
\* host that keeps ticking with an advancing clock, once refused, gets the
\* command run again (as long as the clock can still pass the last run by
\* 5000 ms and one more step within the time the model follows).
C26_NoLockout ==
    /\ [][ (/\ last_call'.op = "tick"
            /\ provider_configured(config)
            /\ last_command_run.some
            /\ now' - last_command_run.v >= 5000) => last_call'.invoked ]_vars
    /\ (Refused /\ last_command_run.v + 5000 + 2500 <= 5000 * MaxFailures) ~> Ran

\* The seventh failure in a row, at the earliest time it can come: the sixth
\* came at 17500 and set the deadline 5000 ms later, the time of this call.
C26_Witness ==
    /\ RanError /\ consecutive_failures = 7 /\ now = 22500
    /\ backoff_until = Some(27500)

\* The host has dropped the future of a suspended tick
Cancelled == pc # Idle /\ pc' = Idle /\ last_call'.op = "tick_cancelled"

\* C27: a tick dropped while it is suspended, in the git refresh or at the
\* runner, leaves last_command_run, last_line3 and consecutive_failures as
\* they were at its call (at most an expired deadline is cleared), so that
\* the next tick runs the command or not as if the dropped one had not been
\* called; the three fields change only in the step in which a tick that ran
\* the command returns, and that tick's time is then the last run.
C27_CancelAllOrNothing ==
    [][ /\ Cancelled =>
              /\ last_command_run' = pc.before.last_command_run
              /\ last_line3' = pc.before.last_line3
              /\ consecutive_failures' = pc.before.consecutive_failures
              /\ \/ backoff_until' = pc.before.backoff_until
                 \/ /\ pc.at = "run_command_provider" /\ backoff_until' = None
                    /\ pc.before.backoff_until.some /\ pc.now >= pc.before.backoff_until.v
              /\ \A d \in CancelDeltas, j \in JitterValues :
                    maybe_run_command_provider(config,
                        History(last_command_run', last_line3', consecutive_failures',
                                backoff_until'), now' + d, j, NoProc, FALSE).invoked
                    = maybe_run_command_provider(config, pc.before, now' + d, j,
                                                 NoProc, FALSE).invoked
        /\ <<last_command_run', last_line3', consecutive_failures'>>
              # <<last_command_run, last_line3, consecutive_failures>> =>
              /\ pc' = Idle /\ Ran'
              /\ last_command_run' = Some(now') ]_vars

\* A tick called after the deadline of a third failure had passed was dropped
\* at the runner: the child is killed, the deadline is cleared, and the last
\* run is still the third failure's.
C27_Witness ==
    /\ last_call.op = "tick_cancelled" /\ last_call.at = "run_command_provider"
    /\ pc = Idle
    /\ last_call.child = "killed"
    /\ last_call.before.backoff_until.some /\ backoff_until = None
    /\ consecutive_failures = 3
    /\ last_command_run = last_call.before.last_command_run
    /\ last_command_run.v < last_call.now
====
